---- MODULE Spec2Model ----
(***************************************************************************)
(* A model of allocate_data.py: the batch-size prompt, the batch plan, the *)
(* allocation loop, the three exporters (CSV, JSON manifest, HTML page)    *)
(* and the client script of the generated page.                            *)
(*                                                                         *)
(* The model starts where main() has loaded the dataset (the path prompts   *)
(* and load_jsonl's file access are not modelled) and follows one run; the *)
(* page is then opened by the annotation host for one row of the CSV.      *)
(* The CSV is modelled as the rows handed to csv.writer, which the host    *)
(* reads back cell for cell.  Records carry an id, as save_allocation_json *)
(* requires.                                                               *)
(*                                                                         *)
(* Text that comes from the dataset or the keyboard (ids, titles,          *)
(* conversations, typed input) is a sequence of characters, a character    *)
(* being its Unicode code point (<<104, 105>> is "hi"), so that int() and  *)
(* trim() are computed.  Names the code itself writes ("1", "id1",         *)
(* "answer_convo1", "Yes") are TLA+ strings.                               *)
(***************************************************************************)
EXTENDS Integers, Sequences, FiniteSets, TLC

\* ---------------------------------------------------------------- bounds

\* The longest dataset explored.
MaxTotal == 5

\* ------------------------------------------------------------ text values

\* Python's '' / JavaScript's "" as dataset text.
EmptyStr == <<>>

\* Unicode category Zs: SP, NBSP, U+1680, U+2000..U+200A, U+202F, U+205F, U+3000.
SpaceSeparators == {32, 160, 5760} \cup (8192..8202) \cup {8239, 8287, 12288}

\* What String.prototype.trim() strips: WhiteSpace (TAB, VT, FF, U+FEFF and
\* category Zs) and LineTerminator (LF, CR, U+2028, U+2029).
JsWhiteSpace == {9, 11, 12, 65279} \cup SpaceSeparators \cup {10, 13, 8232, 8233}

\* What int() strips around the number: TAB, LF, VT, FF, CR, U+0085 (NEL),
\* category Zs, U+2028 and U+2029.
PyWhitespace == (9..13) \cup {133} \cup SpaceSeparators \cup {8232, 8233}

\* The digit zero of every script that has decimal digits (category Nd,
\* Unicode 14); the nine code points after each are its digits 1 to 9.
DigitZeros ==
    {
     48, 1632, 1776, 1984, 2406, 2534, 2662, 2790, 2918, 3046, 3174, 3302, 3430,
     3558, 3664, 3792, 3872, 4160, 4240, 6112, 6160, 6470, 6608, 6784, 6800, 6992,
     7088, 7232, 7248, 42528, 43216, 43264, 43472, 43504, 43600, 44016, 65296, 66720,
     68912, 69734, 69872, 69942, 70096, 70384, 70736, 70864, 71248, 71360, 71472,
     71904, 72016, 72784, 73040, 73120, 92768, 92864, 93008, 120782, 120792, 120802,
     120812, 120822, 123200, 123632, 125264, 130032}

\* Every character int() reads as a decimal digit.
Digits == UNION {z..(z + 9) : z \in DigitZeros}

IsDigit(c) == c \in Digits

\* The value of a decimal digit.
DigitVal(c) == c - (CHOOSE z \in DigitZeros : c \in z..(z + 9))

\* "+" and "-"
Signs == {43, 45}

\* The most digits int() converts (sys.get_int_max_str_digits(), which the
\* program leaves at its default); a longer number raises ValueError.
MaxStrDigits == 4300

\* The lines typed at the batch-size prompt.
InputLines ==
    {<<>>,                \* ""
     <<32>>,              \* " "
     <<120>>,             \* "x"
     <<50, 120>>,         \* "2x"
     <<50, 46, 48>>,      \* "2.0"
     <<45>>,              \* "-"
     <<49, 32, 50>>,      \* "1 2"
     <<43, 32, 50>>,      \* "+ 2"
     <<50, 95>>,          \* "2_"
     <<49, 95, 95, 50>>,  \* "1__2"
     <<65279, 50>>,       \* U+FEFF "2": blank for trim(), not for int()
     <<48>>,              \* "0"
     <<45, 49>>,          \* "-1"
     <<49>>,              \* "1"
     <<50>>,              \* "2"
     <<51>>,              \* "3"
     <<32, 50, 32>>,      \* " 2 "
     <<9, 50>>,           \* TAB "2"
     <<50, 10>>,          \* "2" LF
     <<12288, 51>>,       \* U+3000 (ideographic space) "3"
     <<43, 49>>,          \* "+1"
     <<48, 51>>,          \* "03"
     <<65298>>,           \* U+FF12, fullwidth digit two
     <<1635>>,            \* U+0663, arabic-indic digit three
     <<57>>,              \* "9"
     <<49, 50>>,          \* "12"
     <<49, 95, 50>>,      \* "1_2", which int() reads as 12
     [i \in 1..(MaxStrDigits + 1) |-> 57]}   \* "9" * 4301, too long for int()

\* s without its leading characters of ws.
RECURSIVE LStrip(_, _)
LStrip(s, ws) == IF s # <<>> /\ Head(s) \in ws THEN LStrip(Tail(s), ws) ELSE s

\* s without its trailing characters of ws.
RECURSIVE RStrip(_, _)
RStrip(s, ws) ==
    IF s # <<>> /\ s[Len(s)] \in ws THEN RStrip(SubSeq(s, 1, Len(s) - 1), ws) ELSE s

\* String.prototype.trim()
Trim(s) == RStrip(LStrip(s, JsWhiteSpace), JsWhiteSpace)

\* The whitespace int() drops on both sides.
PyStrip(s) == RStrip(LStrip(s, PyWhitespace), PyWhitespace)

\* The value of a run of digits and underscores, the underscores skipped.
RECURSIVE DigitsValue(_)
DigitsValue(s) ==
    IF s = <<>> THEN 0
    ELSE IF s[Len(s)] = 95 THEN DigitsValue(SubSeq(s, 1, Len(s) - 1))
    ELSE 10 * DigitsValue(SubSeq(s, 1, Len(s) - 1)) + DigitVal(s[Len(s)])

\* int(s): surrounding whitespace is dropped, one sign is allowed, what is
\* left must be decimal digits, with single underscores allowed between two
\* digits, and no more than MaxStrDigits digits (leading zeros counted,
\* underscores not); anything else raises ValueError (ok = FALSE).
PyInt(s) ==
    LET t    == PyStrip(s)
        neg  == t # <<>> /\ Head(t) = 45
        sgn  == t # <<>> /\ Head(t) \in Signs
        body == IF sgn THEN Tail(t) ELSE t
        ok   == /\ body # <<>>
                /\ Len(SelectSeq(body, IsDigit)) <= MaxStrDigits
                /\ \A i \in 1..Len(body) :
                      \/ IsDigit(body[i])
                      \/ /\ body[i] = 95
                         /\ i > 1
                         /\ i < Len(body)
                         /\ IsDigit(body[i - 1])
                         /\ IsDigit(body[i + 1])
    IN  [ok |-> ok,
         val |-> IF ok THEN (IF neg THEN 0 - DigitsValue(body) ELSE DigitsValue(body)) ELSE 0]

\* ---------------------------------------------------------------- dataset

\* dict.get(key, default)
Get(d, key, default) == IF key \in DOMAIN d THEN d[key] ELSE default

\* The records a dataset is drawn from: a full record (id "a", Title "T",
\* Conversation "hi"), one whose text has no Title (id "b", Conversation
\* TAB "o"), and one whose Conversation is only whitespace (id "c", Title
\* "U", Conversation NBSP LF).
RecA == [id |-> <<97>>, text |-> [Title |-> <<84>>, Conversation |-> <<104, 105>>]]
RecB == [id |-> <<98>>, text |-> [Conversation |-> <<9, 111>>]]
RecC == [id |-> <<99>>, text |-> [Title |-> <<85>>, Conversation |-> <<160, 10>>]]

RecordPool == {RecA, RecB, RecC}

\* What load_jsonl can return: any sequence of records, the empty one included.
Datasets == UNION {[1..n -> RecordPool] : n \in 0..MaxTotal}

\* ------------------------------------------------ get_annotators_info

\* Variant: the check against the dataset size is missing.
InRangeNoUpper(count, total_data) == ~(count <= 0)

\* Variant: a batch as large as the whole dataset is turned away.
InRangeExclusive(count, total_data) == ~(count <= 0) /\ ~(count >= total_data)

\* The two range checks of the prompt loop: neither "continue" is taken.
InRange(count, total_data) == ~(count <= 0) /\ ~(count > total_data)

\* One line typed at the prompt ends the loop ("break") exactly when int()
\* returns and both range checks pass.
Accepted(line, total_data) == PyInt(line).ok /\ InRange(PyInt(line).val, total_data)

\* Variant: a partial last batch is counted as a batch.
NumAnnotatorsCeil(total_data, count) == (total_data + count - 1) \div count

\* num_annotators = total_data // count_per_annotator
NumAnnotators(total_data, count) == total_data \div count

\* remaining = total_data - num_annotators * count_per_annotator
Remaining(total_data, count) == total_data - NumAnnotators(total_data, count) * count

\* annotators: (str(i), count_per_annotator) for i in range(1, num_annotators + 1)
MakeAnnotators(num, count) == [i \in 1..num |-> <<ToString(i), count>>]

\* -------------------------------------------------------------- dicts

\* A dict in insertion order: a sequence of <<key, value>>.
DictHas(d, k) == \E i \in 1..Len(d) : d[i][1] = k

DictGet(d, k, default) ==
    IF DictHas(d, k) THEN d[CHOOSE i \in 1..Len(d) : d[i][1] = k][2] ELSE default

\* d[k] = v
DictSet(d, k, v) ==
    IF DictHas(d, k)
    THEN [i \in 1..Len(d) |-> IF d[i][1] = k THEN <<k, v>> ELSE d[i]]
    ELSE Append(d, <<k, v>>)

\* ------------------------------------------------------------ save_csv

\* headers = ['Participants'], then id{i}, title{i}, convo{i} for i in 1..n
RECURSIVE CsvHeaders(_)
CsvHeaders(n) ==
    IF n <= 0 THEN <<"Participants">>
    ELSE CsvHeaders(n - 1)
         \o <<"id" \o ToString(n), "title" \o ToString(n), "convo" \o ToString(n)>>

\* Variant: the title and the conversation change places.
ConvoCellsSwapped(convo) ==
    <<Get(convo, "id", EmptyStr),
      Get(Get(convo, "text", <<>>), "Conversation", EmptyStr),
      Get(Get(convo, "text", <<>>), "Title", EmptyStr)>>

\* The three cells one record contributes to its annotator's row.
ConvoCells(convo) ==
    <<Get(convo, "id", EmptyStr),
      Get(Get(convo, "text", <<>>), "Title", EmptyStr),
      Get(Get(convo, "text", <<>>), "Conversation", EmptyStr)>>

RECURSIVE FlattenConvos(_)
FlattenConvos(convos) ==
    IF convos = <<>> THEN <<>> ELSE ConvoCells(Head(convos)) \o FlattenConvos(Tail(convos))

\* while len(row) < len(headers): row.append('')
RECURSIVE PadRow(_, _)
PadRow(row, width) == IF Len(row) < width THEN PadRow(Append(row, EmptyStr), width) ELSE row

\* row = [1] + the record cells, padded to the header's width
CsvRow(convos, headers) == PadRow(<<1>> \o FlattenConvos(convos), Len(headers))

\* ------------------------------------------------- save_allocation_json

RECURSIVE SumLens(_)
SumLens(d) == IF d = <<>> THEN 0 ELSE Len(Head(d)[2]) + SumLens(Tail(d))

Ids(items) == [i \in 1..Len(items) |-> items[i]["id"]]

AnnotatorInfo(alloc, name) ==
    [name |-> name,
     count |-> Len(DictGet(alloc, name, <<>>)),
     conversation_ids |-> Ids(DictGet(alloc, name, <<>>))]

\* Variant: allocated_count counts the annotators, not their records.
AllocationInfoByAnnotator(alloc, unalloc, anns, total_data) ==
    [total_data        |-> total_data,
     participants      |-> Len(anns),
     allocated_count   |-> Len(alloc),
     unallocated_count |-> Len(unalloc),
     unallocated_ids   |-> Ids(unalloc),
     annotators        |-> [i \in 1..Len(anns) |-> AnnotatorInfo(alloc, anns[i][1])]]

AllocationInfo(alloc, unalloc, anns, total_data) ==
    [total_data        |-> total_data,
     participants      |-> Len(anns),
     allocated_count   |-> SumLens(alloc),
     unallocated_count |-> Len(unalloc),
     unallocated_ids   |-> Ids(unalloc),
     annotators        |-> [i \in 1..Len(anns) |-> AnnotatorInfo(alloc, anns[i][1])]]

\* The members of allocation_info in the order json.dump writes them (the
\* dict's insertion order).
JsonKeys ==
    <<"total_data", "participants", "allocated_count", "unallocated_count",
      "unallocated_ids", "annotators">>

\* The first n members of info.
Members(info, n) == [k \in {JsonKeys[i] : i \in 1..n} |-> info[k]]

\* -------------------------------------------------------- generate_html

\* Three hidden divs per slot i in 1..n, each bound to one row field.
RECURSIVE ConvoDivs(_)
ConvoDivs(n) ==
    IF n <= 0 THEN <<>>
    ELSE ConvoDivs(n - 1)
         \o <<[class |-> "convo-id",        field |-> "id" \o ToString(n)],
              [class |-> "convo-title-raw", field |-> "title" \o ToString(n)],
              [class |-> "convo-text-raw",  field |-> "convo" \o ToString(n)]>>

\* Variant: the inputs are numbered from 0.
AnswerInputNameFromZero(i) == "answer_convo" \o ToString(i)

\* name="answer_convo{i+1}" id="answer_convo{i+1}" for i in range(n)
AnswerInputName(i) == "answer_convo" \o ToString(i + 1)

AnswerInputs(n) == [j \in 1..n |-> AnswerInputName(j - 1)]

HtmlFile(convos_per_annotator) ==
    [convo_divs    |-> ConvoDivs(convos_per_annotator),
     answer_inputs |-> AnswerInputs(convos_per_annotator)]

\* The three output files before they are opened.  A file holds what has been
\* written to it so far, which is what is on disk once its with-block is
\* left, by the end of the block or by an exception.
NoCsv == [exists |-> FALSE, headers |-> <<>>, rows |-> <<>>]
NoHtml == [exists |-> FALSE, convo_divs |-> <<>>, answer_inputs |-> <<>>]
NoJson == [exists |-> FALSE, members |-> <<>>, begun |-> FALSE, complete |-> FALSE]

VARIABLES
    pc,                  \* where main() is
    data,                \* the loaded dataset
    entered,             \* the line input() returned, while it is being validated
    count_per_annotator, \* the last number int() returned (0 before any)
    num_annotators,      \* get_annotators_info's local
    remaining,           \* get_annotators_info's local
    annotators,          \* [(name, count)] from get_annotators_info
    allocation,          \* the dict being filled, in insertion order: <<name, items>>
    current_idx,         \* allocate_data's cursor
    ann_pos,             \* how many annotators the outer loop of allocate_data has taken
    allocated_items,     \* the list filled for the annotator taken last
    unallocated,         \* data[current_idx:]
    csv_file,            \* the CSV: the header row and the data rows written
    json_file,           \* the manifest: the members written in full, whether the
                         \* next one is begun, whether the text is complete
    html_file,           \* the page: its data slots and answer inputs
    page_pc,             \* the page: "closed", "inert" (script returned early), "live", "submitted"
    slots,               \* the hidden divs as the host rendered them for one CSV row
    convos,              \* the script's convos array
    cur,                 \* the script's cur (0-based)
    answers,             \* value of each hidden answer input, by element id
    checked,             \* the checked radio's value, "" when none is checked
    prevDisabled,        \* prevBtn.disabled
    nextHidden,          \* nextBtn.style.display = 'none'
    submitRowHidden,     \* submitRow.style.display = 'none'
    submitDisabled,      \* submitBtn.disabled
    progress,            \* the answered count shown in progressText
    chosen               \* observer: per data slot, the last radio value the user
                         \* picked while that slot's conversation was on screen

cliVars == <<pc, data, entered, count_per_annotator, num_annotators, remaining, annotators>>
allocVars == <<allocation, current_idx, ann_pos, allocated_items, unallocated>>
fileVars == <<csv_file, json_file, html_file>>

pageVars == <<page_pc, slots, convos, cur, answers, checked, prevDisabled, nextHidden,
              submitRowHidden, submitDisabled, progress, chosen>>

vars == <<cliVars, allocVars, fileVars, pageVars>>

Init ==
    /\ pc = "prompt"
    /\ data \in Datasets
    /\ entered = <<>>
    /\ count_per_annotator = 0
    /\ num_annotators = 0
    /\ remaining = 0
    /\ annotators = <<>>
    /\ allocation = <<>>
    /\ current_idx = 0
    /\ ann_pos = 0
    /\ allocated_items = <<>>
    /\ unallocated = <<>>
    /\ csv_file = NoCsv
    /\ json_file = NoJson
    /\ html_file = NoHtml
    /\ page_pc = "closed"
    /\ slots = <<>>
    /\ convos = <<>>
    /\ cur = 0
    /\ answers = <<>>
    /\ checked = ""
    /\ prevDisabled = FALSE
    /\ nextHidden = FALSE
    /\ submitRowHidden = TRUE
    /\ submitDisabled = TRUE
    /\ progress = 0
    /\ chosen = <<>>

\* ----------------------------------------------------- the prompt loop

\* input() returns a line.
ReadInput ==
    /\ pc = "prompt"
    /\ \E line \in InputLines : entered' = line
    /\ pc' = "validate"
    /\ UNCHANGED <<data, count_per_annotator, num_annotators, remaining, annotators,
                   allocVars, fileVars, pageVars>>

\* count_per_annotator = int(...), then the two range checks: break, or print
\* and prompt again.  A ValueError leaves count_per_annotator as it was; a
\* number out of range stays in it while the prompt is repeated.
Validate ==
    /\ pc = "validate"
    /\ count_per_annotator' =
          IF PyInt(entered).ok THEN PyInt(entered).val ELSE count_per_annotator
    /\ pc' = IF Accepted(entered, Len(data)) THEN "plan" ELSE "prompt"
    /\ entered' = <<>>
    /\ UNCHANGED <<data, num_annotators, remaining, annotators, allocVars, fileVars, pageVars>>

\* Where main() is still running.
Running ==
    {"prompt", "validate", "plan", "confirm", "allocate", "alloc_outer", "alloc_inner",
     "save_csv", "csv_header", "csv_rows", "save_json", "json_dump", "gen_html",
     "html_write", "report"}

\* Ctrl-C: KeyboardInterrupt leaves main() wherever it is, inside an exporter
\* too, with what has been written so far (an open file is closed by its
\* with-block); the handler around main() exits 0.
Interrupt ==
    /\ pc \in Running
    /\ pc' = "interrupted"
    /\ UNCHANGED <<data, entered, count_per_annotator, num_annotators, remaining,
                   annotators, allocVars, fileVars, pageVars>>

\* End of input at a prompt: input() raises EOFError, which the handler
\* around main() reports with a traceback before it exits 1.
EndOfInput ==
    /\ pc \in {"prompt", "confirm"}
    /\ pc' = "eof"
    /\ UNCHANGED <<data, entered, count_per_annotator, num_annotators, remaining,
                   annotators, allocVars, fileVars, pageVars>>

\* The rest of get_annotators_info: the plan and the annotator list.  A
\* division by zero raises ZeroDivisionError.
Plan ==
    /\ pc = "plan"
    /\ IF count_per_annotator = 0
       THEN /\ pc' = "crashed"
            /\ UNCHANGED <<num_annotators, remaining, annotators>>
       ELSE /\ num_annotators' = NumAnnotators(Len(data), count_per_annotator)
            /\ remaining' = Remaining(Len(data), count_per_annotator)
            /\ annotators' = MakeAnnotators(NumAnnotators(Len(data), count_per_annotator),
                                            count_per_annotator)
            /\ pc' = "confirm"
    /\ UNCHANGED <<data, entered, count_per_annotator, allocVars, fileVars, pageVars>>

\* The final confirm: anything but "y" cancels (exit 0).
Confirm ==
    /\ pc = "confirm"
    /\ \E answer \in {"y", "n"} : pc' = IF answer = "y" THEN "allocate" ELSE "cancelled"
    /\ UNCHANGED <<data, entered, count_per_annotator, num_annotators, remaining,
                   annotators, allocVars, fileVars, pageVars>>

\* ------------------------------------------------------- allocate_data

\* allocation = {}; current_idx = 0; reach the loop over annotators.
\* ann_pos counts the annotators the loop has taken.
AllocateBegin ==
    /\ pc = "allocate"
    /\ allocation' = <<>>
    /\ current_idx' = 0
    /\ ann_pos' = 0
    /\ pc' = "alloc_outer"
    /\ UNCHANGED <<data, entered, count_per_annotator, num_annotators, remaining,
                   annotators, allocated_items, unallocated, fileVars, pageVars>>

\* The outer loop takes the next annotator: allocated_items = [].
AllocateNext ==
    /\ pc = "alloc_outer"
    /\ ann_pos < Len(annotators)
    /\ ann_pos' = ann_pos + 1
    /\ allocated_items' = <<>>
    /\ pc' = "alloc_inner"
    /\ UNCHANGED <<data, entered, count_per_annotator, num_annotators, remaining,
                   annotators, allocation, current_idx, unallocated, fileVars, pageVars>>

\* Variant: the cursor is not moved.
AdvanceStuck(idx) == idx

\* current_idx += 1
Advance(idx) == idx + 1

\* One pass of the inner loop: allocated_items.append(data[current_idx]);
\* current_idx += 1.  An index past the end raises IndexError.
AllocateItem ==
    /\ pc = "alloc_inner"
    /\ Len(allocated_items) < annotators[ann_pos][2]
    /\ IF current_idx < Len(data)
       THEN /\ allocated_items' = Append(allocated_items, data[current_idx + 1])
            /\ current_idx' = Advance(current_idx)
            /\ pc' = pc
       ELSE /\ pc' = "crashed"
            /\ UNCHANGED <<allocated_items, current_idx>>
    /\ UNCHANGED <<data, entered, count_per_annotator, num_annotators, remaining,
                   annotators, allocation, ann_pos, unallocated, fileVars, pageVars>>

\* data[current_idx:]
Rest(d, idx) == SubSeq(d, idx + 1, Len(d))

\* Variant: the last annotator also takes what is left of the dataset.
AllocateAssignPadLast ==
    /\ pc = "alloc_inner"
    /\ Len(allocated_items) >= annotators[ann_pos][2]
    /\ allocation' = DictSet(allocation, annotators[ann_pos][1],
                             IF ann_pos = Len(annotators)
                             THEN allocated_items \o Rest(data, current_idx)
                             ELSE allocated_items)
    /\ current_idx' = IF ann_pos = Len(annotators) THEN Len(data) ELSE current_idx
    /\ pc' = "alloc_outer"
    /\ UNCHANGED <<data, entered, count_per_annotator, num_annotators, remaining,
                   annotators, ann_pos, allocated_items, unallocated, fileVars, pageVars>>

\* The inner loop is done: allocation[name] = allocated_items.  The local
\* keeps its list until the outer loop takes the next annotator.
AllocateAssign ==
    /\ pc = "alloc_inner"
    /\ Len(allocated_items) >= annotators[ann_pos][2]
    /\ allocation' = DictSet(allocation, annotators[ann_pos][1], allocated_items)
    /\ pc' = "alloc_outer"
    /\ UNCHANGED <<data, entered, count_per_annotator, num_annotators, remaining,
                   annotators, current_idx, ann_pos, allocated_items, unallocated,
                   fileVars, pageVars>>

\* The outer loop is done: unallocated = data[current_idx:]; return.
AllocateEnd ==
    /\ pc = "alloc_outer"
    /\ ~(ann_pos < Len(annotators))
    /\ unallocated' = Rest(data, current_idx)
    /\ pc' = "save_csv"
    /\ UNCHANGED <<data, entered, count_per_annotator, num_annotators, remaining,
                   annotators, allocation, current_idx, ann_pos, allocated_items,
                   fileVars, pageVars>>

\* ---------------------------------------------------- the three exports

\* save_csv builds the header list and opens the file, which is created empty.
SaveCsvOpen ==
    /\ pc = "save_csv"
    /\ csv_file' = [exists |-> TRUE, headers |-> <<>>, rows |-> <<>>]
    /\ pc' = "csv_header"
    /\ UNCHANGED <<data, entered, count_per_annotator, num_annotators, remaining,
                   annotators, allocVars, json_file, html_file, pageVars>>

\* writer.writerow(headers)
SaveCsvHeader ==
    /\ pc = "csv_header"
    /\ csv_file' = [csv_file EXCEPT !.headers = CsvHeaders(count_per_annotator)]
    /\ pc' = "csv_rows"
    /\ UNCHANGED <<data, entered, count_per_annotator, num_annotators, remaining,
                   annotators, allocVars, json_file, html_file, pageVars>>

\* One pass of the loop over allocation.items(): the row of the next
\* annotator is built and written.
SaveCsvRow ==
    /\ pc = "csv_rows"
    /\ Len(csv_file.rows) < Len(allocation)
    /\ csv_file' = [csv_file EXCEPT !.rows =
                        Append(@, CsvRow(allocation[Len(@) + 1][2],
                                         CsvHeaders(count_per_annotator)))]
    /\ pc' = pc
    /\ UNCHANGED <<data, entered, count_per_annotator, num_annotators, remaining,
                   annotators, allocVars, json_file, html_file, pageVars>>

\* The loop is done: the file is closed and save_csv returns.
SaveCsvClose ==
    /\ pc = "csv_rows"
    /\ ~(Len(csv_file.rows) < Len(allocation))
    /\ pc' = "save_json"
    /\ UNCHANGED <<data, entered, count_per_annotator, num_annotators, remaining,
                   annotators, allocVars, fileVars, pageVars>>

\* save_allocation_json builds allocation_info and opens the file, which is
\* created empty.
SaveJsonOpen ==
    /\ pc = "save_json"
    /\ json_file' = [exists |-> TRUE, members |-> <<>>, begun |-> FALSE, complete |-> FALSE]
    /\ pc' = "json_dump"
    /\ UNCHANGED <<data, entered, count_per_annotator, num_annotators, remaining,
                   annotators, allocVars, csv_file, html_file, pageVars>>

\* json.dump with indent=2 writes the text piece by piece.  The pieces up to
\* and including the key of the next member are written ...
JsonDumpKey ==
    /\ pc = "json_dump"
    /\ ~json_file.begun
    /\ Cardinality(DOMAIN json_file.members) < Len(JsonKeys)
    /\ json_file' = [json_file EXCEPT !.begun = TRUE]
    /\ pc' = pc
    /\ UNCHANGED <<data, entered, count_per_annotator, num_annotators, remaining,
                   annotators, allocVars, csv_file, html_file, pageVars>>

\* ... then the pieces of its value.  (The text of a value written in part is
\* not told apart from that of a member just begun.)
JsonDumpValue ==
    /\ pc = "json_dump"
    /\ json_file.begun
    /\ json_file' =
          [json_file EXCEPT
              !.members = Members(AllocationInfo(allocation, unallocated, annotators,
                                                 Len(data)),
                                  Cardinality(DOMAIN @) + 1),
              !.begun = FALSE]
    /\ pc' = pc
    /\ UNCHANGED <<data, entered, count_per_annotator, num_annotators, remaining,
                   annotators, allocVars, csv_file, html_file, pageVars>>

\* The closing brace is written, the file is closed and save_allocation_json
\* returns.
JsonDumpEnd ==
    /\ pc = "json_dump"
    /\ ~json_file.begun
    /\ ~(Cardinality(DOMAIN json_file.members) < Len(JsonKeys))
    /\ json_file' = [json_file EXCEPT !.complete = TRUE]
    /\ pc' = "gen_html"
    /\ UNCHANGED <<data, entered, count_per_annotator, num_annotators, remaining,
                   annotators, allocVars, csv_file, html_file, pageVars>>

\* generate_html builds the page text and opens the file, which is created
\* empty.
GenerateHtmlOpen ==
    /\ pc = "gen_html"
    /\ html_file' = [exists |-> TRUE, convo_divs |-> <<>>, answer_inputs |-> <<>>]
    /\ pc' = "html_write"
    /\ UNCHANGED <<data, entered, count_per_annotator, num_annotators, remaining,
                   annotators, allocVars, csv_file, json_file, pageVars>>

\* f.write(html): the page is written in one piece; generate_html returns.
GenerateHtmlWrite ==
    /\ pc = "html_write"
    /\ html_file' = [exists        |-> TRUE,
                     convo_divs    |-> HtmlFile(count_per_annotator).convo_divs,
                     answer_inputs |-> HtmlFile(count_per_annotator).answer_inputs]
    /\ pc' = "report"
    /\ UNCHANGED <<data, entered, count_per_annotator, num_annotators, remaining,
                   annotators, allocVars, csv_file, json_file, pageVars>>

\* The closing report is printed and main() returns.
Finish ==
    /\ pc = "report"
    /\ pc' = "done"
    /\ UNCHANGED <<data, entered, count_per_annotator, num_annotators, remaining,
                   annotators, allocVars, fileVars, pageVars>>

\* ------------------------------------------- the page: rendering host

\* {{ task.row_data['f'] }}: the cell of CSV row r under the header named f.
RowData(csv, r, field) ==
    IF \E c \in 1..Len(csv.headers) : csv.headers[c] = field
    THEN csv.rows[r][CHOOSE c \in 1..Len(csv.headers) : csv.headers[c] = field]
    ELSE EmptyStr

\* The hidden divs of the page once the host has filled them from row r.
RenderDivs(html, csv, r) ==
    [d \in 1..Len(html.convo_divs) |->
        [class       |-> html.convo_divs[d].class,
         textContent |-> RowData(csv, r, html.convo_divs[d].field)]]

\* ------------------------------------------- the page: client script

RadioValues == {"Yes", "No"}

\* document.querySelectorAll('.cls'), in document order
QuerySelectorAll(divs, cls) ==
    LET HasClass(d) == d.class = cls
    IN  SelectSeq(divs, HasClass)

\* The loop that fills convos, from index i (0-based) on: a slot whose
\* trimmed text is empty is skipped ("continue"), the others are pushed.
RECURSIVE CollectConvos(_, _, _, _)
CollectConvos(ids, titles, texts, i) ==
    IF ~(i < Len(texts)) THEN <<>>
    ELSE LET t == Trim(texts[i + 1].textContent)
         IN  IF t = EmptyStr
             THEN CollectConvos(ids, titles, texts, i + 1)
             ELSE <<[id    |-> IF i < Len(ids) THEN Trim(ids[i + 1].textContent) ELSE EmptyStr,
                     title |-> IF i < Len(titles) THEN Trim(titles[i + 1].textContent)
                               ELSE EmptyStr,
                     convo |-> t]>>
                  \o CollectConvos(ids, titles, texts, i + 1)

\* 'answer_convo' + (idx + 1)
AnswerElementId(idx) == "answer_convo" \o ToString(idx + 1)

GetAnswer(ans, idx) ==
    IF AnswerElementId(idx) \in DOMAIN ans THEN ans[AnswerElementId(idx)] ELSE ""

SetAnswer(ans, idx, val) ==
    IF AnswerElementId(idx) \in DOMAIN ans
    THEN [ans EXCEPT ![AnswerElementId(idx)] = val]
    ELSE ans

\* for (k = 0; k < total; k++) if (getAnswer(k)) n++
CountAnswered(ans, total) == Cardinality({k \in 0..(total - 1) : GetAnswer(ans, k) # ""})

\* setAnswer(cur, value of the checked radio), nothing when none is checked
SaveCurrent(ans, c, chk) == IF chk \in RadioValues THEN SetAnswer(ans, c, chk) ELSE ans

\* Variant: the button opens one answer early.
SubmitGateEarly(answered, total) == answered < total - 1

\* submitBtn.disabled = (answered < total)
SubmitGate(answered, total) == answered < total

\* render() for position c with the answers ans: the radios take the saved
\* answer, the buttons and the progress are refreshed.
Render(c, ans, total) ==
    /\ checked' = IF GetAnswer(ans, c) \in RadioValues THEN GetAnswer(ans, c) ELSE ""
    /\ prevDisabled' = (c = 0)
    /\ nextHidden' = (c = total - 1)
    /\ submitRowHidden' = ~(c = total - 1)
    /\ progress' = CountAnswered(ans, total)
    /\ submitDisabled' = SubmitGate(CountAnswered(ans, total), total)

\* The data slot (1-based) whose conversation is convos[j] (1-based): the
\* j-th slot, in document order, whose text is not blank.
SlotOfConvo(divs, j) ==
    LET texts == QuerySelectorAll(divs, "convo-text-raw")
        Shown(i) == Trim(texts[i].textContent) # EmptyStr
    IN  CHOOSE i \in 1..Len(texts) :
            Shown(i) /\ Cardinality({h \in 1..i : Shown(h)}) = j

\* The data slot whose conversation is on screen.
DisplayedSlot == SlotOfConvo(slots, cur + 1)

\* The host renders the page for one CSV row and the script runs: collect
\* convos, return if there are none, else cur = 0 and render().
LoadPage ==
    /\ pc = "done"
    /\ page_pc = "closed"
    /\ \E r \in 1..Len(csv_file.rows) :
          LET divs == RenderDivs(html_file, csv_file, r)
              cs   == CollectConvos(QuerySelectorAll(divs, "convo-id"),
                                    QuerySelectorAll(divs, "convo-title-raw"),
                                    QuerySelectorAll(divs, "convo-text-raw"), 0)
              ans  == [n \in {html_file.answer_inputs[j] :
                                j \in 1..Len(html_file.answer_inputs)} |-> ""]
          IN  /\ slots' = divs
              /\ convos' = cs
              /\ answers' = ans
              /\ cur' = 0
              /\ chosen' = [k \in 1..Len(QuerySelectorAll(divs, "convo-text-raw")) |-> ""]
              /\ IF Len(cs) = 0
                 THEN /\ page_pc' = "inert"
                      /\ UNCHANGED <<checked, prevDisabled, nextHidden, submitRowHidden,
                                     submitDisabled, progress>>
                 ELSE /\ page_pc' = "live"
                      /\ Render(0, ans, Len(cs))
    /\ UNCHANGED <<cliVars, allocVars, fileVars>>

\* The user picks a radio that was not checked: the change handler saves it
\* for cur and refreshes progress and the submit button.  On an inert page no
\* handler is attached.
SelectRadio ==
    /\ page_pc \in {"live", "inert"}
    /\ \E v \in RadioValues :
          /\ checked # v
          /\ checked' = v
          /\ IF page_pc = "live"
             THEN /\ answers' = SaveCurrent(answers, cur, v)
                  /\ progress' = CountAnswered(SaveCurrent(answers, cur, v), Len(convos))
                  /\ submitDisabled' =
                        SubmitGate(CountAnswered(SaveCurrent(answers, cur, v), Len(convos)),
                                   Len(convos))
                  /\ chosen' = [chosen EXCEPT ![DisplayedSlot] = v]
             ELSE UNCHANGED <<answers, progress, submitDisabled, chosen>>
    /\ UNCHANGED <<cliVars, allocVars, fileVars, page_pc, slots, convos, cur,
                   prevDisabled, nextHidden, submitRowHidden>>

\* go(dir): saveCurrent(), then move and render() unless out of range.
Go(dir) ==
    LET saved == SaveCurrent(answers, cur, checked)
        next  == cur + dir
    IN  /\ answers' = saved
        /\ IF next < 0 \/ next >= Len(convos)
           THEN UNCHANGED <<cur, checked, prevDisabled, nextHidden, submitRowHidden,
                            submitDisabled, progress>>
           ELSE /\ cur' = next
                /\ Render(next, saved, Len(convos))

ClickPrev ==
    /\ page_pc = "live"
    /\ ~prevDisabled
    /\ Go(-1)
    /\ UNCHANGED <<cliVars, allocVars, fileVars, page_pc, slots, convos, chosen>>

ClickNext ==
    /\ page_pc = "live"
    /\ ~nextHidden
    /\ Go(1)
    /\ UNCHANGED <<cliVars, allocVars, fileVars, page_pc, slots, convos, chosen>>

\* The Submit button is pressed: possible only when it is shown and enabled.
Submit ==
    /\ page_pc = "live"
    /\ ~submitRowHidden
    /\ ~submitDisabled
    /\ page_pc' = "submitted"
    /\ UNCHANGED <<cliVars, allocVars, fileVars, slots, convos, cur, answers, checked,
                   prevDisabled, nextHidden, submitRowHidden, submitDisabled, progress,
                   chosen>>

Next ==
    \/ ReadInput
    \/ Validate
    \/ Interrupt
    \/ EndOfInput
    \/ Plan
    \/ Confirm
    \/ AllocateBegin
    \/ AllocateNext
    \/ AllocateItem
    \/ AllocateAssign
    \/ AllocateEnd
    \/ SaveCsvOpen
    \/ SaveCsvHeader
    \/ SaveCsvRow
    \/ SaveCsvClose
    \/ SaveJsonOpen
    \/ JsonDumpKey
    \/ JsonDumpValue
    \/ JsonDumpEnd
    \/ GenerateHtmlOpen
    \/ GenerateHtmlWrite
    \/ Finish
    \/ LoadPage
    \/ SelectRadio
    \/ ClickPrev
    \/ ClickNext
    \/ Submit

Spec == Init /\ [][Next]_vars

\* ================================================================ claims

\* get_annotators_info has returned.
Planned ==
    pc \in {"confirm", "cancelled", "allocate", "alloc_outer", "alloc_inner", "save_csv",
            "csv_header", "csv_rows", "save_json", "json_dump", "gen_html", "html_write",
            "report", "done"}

\* generate_html has returned.
HtmlSaved == pc \in {"report", "done"}

\* save_allocation_json has returned: main() is past it, or was when it was
\* interrupted (the manifest got its closing brace, or the page was opened).
JsonSaved == pc \in {"gen_html", "html_write"} \/ HtmlSaved \/ json_file.complete \/ html_file.exists

\* save_csv has returned: main() is past it, or was when it was interrupted
\* (the manifest was opened).
CsvSaved == pc \in {"save_json", "json_dump"} \/ JsonSaved \/ json_file.exists

\* allocate_data has returned.
AllocateReturned == pc \in {"save_csv", "csv_header", "csv_rows"} \/ CsvSaved \/ csv_file.exists

Numbered(prefix, i) == prefix \o ToString(i)

RECURSIVE ConcatItems(_)
ConcatItems(d) == IF d = <<>> THEN <<>> ELSE Head(d)[2] \o ConcatItems(Tail(d))

IdSet(items) == {items[i]["id"] : i \in 1..Len(items)}

UniqueIds(items) == \A i, j \in 1..Len(items) : items[i]["id"] = items[j]["id"] => i = j

\* C1: once a batch size b is accepted for a dataset of total records, the
\* plan has total div b annotators named "1", "2", ... in order, each with
\* count b, and its remainder is total mod b: annotators * b + remainder =
\* total, annotators * b <= total, 0 <= remainder < b.
C1_BatchPlan ==
    Planned =>
        LET total == Len(data)
            b     == count_per_annotator
        IN  /\ num_annotators = total \div b
            /\ remaining = total % b
            /\ num_annotators * b + remaining = total
            /\ num_annotators * b <= total
            /\ remaining >= 0
            /\ remaining < b
            /\ Len(annotators) = num_annotators
            /\ \A i \in 1..Len(annotators) : annotators[i] = <<ToString(i), b>>

\* A plan with several annotators and records left over.
C1_Witness == Planned /\ num_annotators >= 2 /\ remaining > 0

\* C2: when allocate_data returns, annotator k holds exactly the b records at
\* dataset positions (k-1)*b .. k*b-1 in their order, under the name str(k),
\* and the unallocated list is exactly the records from position
\* annotators*b on; the last annotator's batch has b records like the others.
C2_Slices ==
    AllocateReturned =>
        LET b == count_per_annotator
            n == Len(data) \div b
        IN  /\ Len(allocation) = n
            /\ \A k \in 1..Len(allocation) :
                  /\ allocation[k][1] = ToString(k)
                  /\ Len(allocation[k][2]) = b
                  /\ \A j \in 1..Len(allocation[k][2]) :
                        (k - 1) * b + j <= Len(data)
                        /\ allocation[k][2][j] = data[(k - 1) * b + j]
            /\ Len(unallocated) = Len(data) - n * b
            /\ \A i \in 1..Len(unallocated) : unallocated[i] = data[n * b + i]

\* An allocation with several annotators and records left over.
C2_Witness == AllocateReturned /\ Len(allocation) >= 2 /\ unallocated # <<>>

\* C3: the allocation is a partition of the dataset: the annotators' slices
\* in order followed by the unallocated list are the dataset; with unique
\* ids no id is in two of these parts.  While the loop runs, current_idx is
\* the number of records handed out so far and is never past the end of the
\* dataset (no IndexError).
C3_Partition ==
    /\ pc = "alloc_outer" =>
          /\ current_idx = SumLens(allocation)
          /\ current_idx <= Len(data)
    /\ pc = "alloc_inner" =>
          /\ current_idx = SumLens(allocation) + Len(allocated_items)
          /\ current_idx <= Len(data)
    /\ pc # "crashed"
    /\ AllocateReturned =>
          /\ current_idx = SumLens(allocation)
          /\ ConcatItems(allocation) \o unallocated = data
          /\ UniqueIds(data) =>
                /\ \A k \in 1..Len(allocation) :
                      IdSet(allocation[k][2]) \cap IdSet(unallocated) = {}
                /\ \A k, m \in 1..Len(allocation) :
                      k # m => IdSet(allocation[k][2]) \cap IdSet(allocation[m][2]) = {}

\* A dataset of unique ids split into a slice and a non-empty remainder.
C3_Witness ==
    /\ AllocateReturned
    /\ UniqueIds(data)
    /\ Len(data) >= 3
    /\ Len(allocation) >= 1
    /\ unallocated # <<>>

\* The line being validated is not an integer, or is one that is <= 0 or
\* greater than the dataset size.
BadBatchSize ==
    \/ ~PyInt(entered).ok
    \/ PyInt(entered).val <= 0
    \/ PyInt(entered).val > Len(data)

\* C4: a line that is not an integer, or an integer <= 0 or greater than the
\* dataset size, is rejected: the prompt comes again (unless Ctrl-C ends the
\* run there) and nothing is allocated or written; and whatever is typed,
\* allocate_data runs, and a file is written, only with a batch size in
\* 1..total.
C4_Rejection ==
    /\ [][(pc = "validate" /\ BadBatchSize) =>
              /\ pc' \in {"prompt", "interrupted"}
              /\ UNCHANGED <<allocVars, fileVars, annotators>>]_vars
    /\ []((\/ pc \in {"allocate", "alloc_outer", "alloc_inner"}
           \/ AllocateReturned
           \/ csv_file.exists
           \/ json_file.exists
           \/ html_file.exists)
          => (count_per_annotator >= 1 /\ count_per_annotator <= Len(data)))

\* A number larger than the dataset was typed and the prompt is up again.
C4_Witness == pc = "prompt" /\ count_per_annotator > Len(data) /\ Len(data) > 0

\* C5: the CSV save_csv has written when it returns (an interrupted save_csv
\* leaves a shorter file) has one data row per annotator; the header and each row have
\* 1 + 3*b columns; a row starts with 1 and goes on with (id, title,
\* conversation) of the annotator's records in allocation order (a missing
\* title is written as '').
C5_Csv ==
    CsvSaved =>
        LET b == count_per_annotator
            n == Len(data) \div b
        IN  /\ Len(csv_file.headers) = 1 + 3 * b
            /\ Len(csv_file.rows) = n
            /\ \A k \in 1..Len(csv_file.rows) :
                  /\ Len(csv_file.rows[k]) = 1 + 3 * b
                  /\ csv_file.rows[k][1] = 1
                  /\ \A j \in 1..b :
                        LET rec == data[(k - 1) * b + j]
                        IN  /\ csv_file.rows[k][3 * j - 1] = rec.id
                            /\ csv_file.rows[k][3 * j] =
                                  (IF "Title" \in DOMAIN rec.text THEN rec.text.Title
                                   ELSE <<>>)
                            /\ csv_file.rows[k][3 * j + 1] = rec.text.Conversation

\* A CSV of several rows of several records.
C5_Witness ==
    /\ CsvSaved
    /\ Len(csv_file.rows) >= 2
    /\ count_per_annotator >= 2

RECURSIVE SumCounts(_)
SumCounts(infos) == IF infos = <<>> THEN 0 ELSE Head(infos).count + SumCounts(Tail(infos))

\* C6: in the manifest save_allocation_json has written when it returns (an
\* interrupted dump leaves a cut text), allocated_count + unallocated_count = total_data (the
\* dataset's size), participants is the number of entries of annotators[],
\* allocated_count is the sum of their count fields, and unallocated_ids has
\* unallocated_count entries.
C6_Manifest ==
    JsonSaved =>
        LET m == json_file.members
        IN  /\ json_file.complete
            /\ DOMAIN m = {JsonKeys[i] : i \in 1..Len(JsonKeys)}
            /\ m.total_data = Len(data)
            /\ m.allocated_count + m.unallocated_count = m.total_data
            /\ m.participants = Len(m.annotators)
            /\ m.allocated_count = SumCounts(m.annotators)
            /\ Len(m.unallocated_ids) = m.unallocated_count

\* A manifest with several annotators and unallocated records.
C6_Witness ==
    /\ JsonSaved
    /\ json_file.members.participants >= 2
    /\ json_file.members.unallocated_count > 0

\* C7: for batch size b the page has b data slots, slot i being the three
\* containers bound to row fields id{i}, title{i}, convo{i}, which are the
\* CSV's header names for that slot, and b hidden answer inputs named
\* answer_convo1 .. answer_convo{b} in order.
C7_Html ==
    HtmlSaved =>
        LET b == count_per_annotator
        IN  /\ Len(html_file.convo_divs) = 3 * b
            /\ \A i \in 1..b :
                  /\ html_file.convo_divs[3 * i - 2] =
                        [class |-> "convo-id", field |-> Numbered("id", i)]
                  /\ html_file.convo_divs[3 * i - 1] =
                        [class |-> "convo-title-raw", field |-> Numbered("title", i)]
                  /\ html_file.convo_divs[3 * i] =
                        [class |-> "convo-text-raw", field |-> Numbered("convo", i)]
                  /\ csv_file.headers[3 * i - 1] = Numbered("id", i)
                  /\ csv_file.headers[3 * i] = Numbered("title", i)
                  /\ csv_file.headers[3 * i + 1] = Numbered("convo", i)
            /\ Len(html_file.answer_inputs) = b
            /\ \A i \in 1..Len(html_file.answer_inputs) :
                  html_file.answer_inputs[i] = Numbered("answer_convo", i)

\* A page generated for a batch of three.
C7_Witness == HtmlSaved /\ count_per_annotator >= 3

PageRunning == page_pc \in {"live", "submitted"}

\* The value of hidden field answer_convo{k}.
AnswerField(k) == answers[Numbered("answer_convo", k)]

\* The data slots of the rendered row whose conversation is not blank.
ShownSlots ==
    {i \in 1..count_per_annotator :
        \E d \in 1..Len(slots) :
            /\ d = 3 * i
            /\ Trim(slots[d].textContent) # EmptyStr}

\* C8 as stated: whenever Submit is enabled, every one of the b hidden fields
\* answer_convo1 .. answer_convo{b} holds an answer.
C8_AllFieldsAnswered ==
    (PageRunning /\ ~submitDisabled) =>
        \A k \in 1..count_per_annotator : AnswerField(k) # ""

\* C8, amended: Submit starts disabled and stays so on a page that has no
\* conversation to show; otherwise it is enabled exactly when the fields
\* answer_convo1 .. answer_convo{total} all hold an answer, total being the
\* number of slots whose conversation is not blank (all b of them when no
\* conversation of the row is blank).
C8_SubmitGate ==
    /\ page_pc \in {"closed", "inert"} => submitDisabled
    /\ PageRunning =>
          /\ Len(convos) = Cardinality(ShownSlots)
          /\ ~submitDisabled <=> \A k \in 1..Cardinality(ShownSlots) : AnswerField(k) # ""

\* Submit is enabled on a page that shows several conversations, all
\* answered, of a row that has a blank one as well.
C8_Witness ==
    /\ page_pc = "live"
    /\ ~submitDisabled
    /\ Len(convos) >= 2
    /\ Len(convos) < count_per_annotator

\* C9: hidden field answer_convo{k} holds the last Yes/No the user picked
\* while the conversation of data slot k was on screen (nothing when none was
\* picked there).
C9_AnswerPerSlot ==
    PageRunning => \A k \in DOMAIN chosen : AnswerField(k) = chosen[k]

\* C10: the prompt loop ends exactly on a line that is an integer b with
\* 1 <= b <= total and prompts again on any other line (Ctrl-C and the end of
\* input aside, which end the run); so with an empty dataset no line is
\* accepted and the run never gets to the plan, the confirmation, the
\* allocation or the exports.
C10_PromptLoop ==
    /\ [][(pc = "validate" /\ pc' # "interrupted") =>
              /\ pc' \in {"plan", "prompt"}
              /\ pc' = "plan" <=>
                    (/\ PyInt(entered).ok
                     /\ PyInt(entered).val >= 1
                     /\ PyInt(entered).val <= Len(data))]_vars
    /\ [][pc = "prompt" => pc' \in {"validate", "interrupted", "eof"}]_vars
    /\ [](Len(data) = 0 => pc \in {"prompt", "validate", "interrupted", "eof"})

\* With an empty dataset a positive number was typed and the prompt is up again.
C10_Witness == Len(data) = 0 /\ pc = "prompt" /\ count_per_annotator >= 1
====
